---- MODULE Spec2Model ----
(***************************************************************************)
(* A model of mobot's chat handler layer (src/src/lib/handlers/chat.rs):   *)
(* the classification of an Update into a MessageEvent, the conversions    *)
(* and typed accessors of Event, the State container (an Arc<RwLock<T>>),  *)
(* and the Action vocabulary as a handler chain consumes it.               *)
(***************************************************************************)
EXTENDS Integers, Sequences, FiniteSets, TLC

VARIABLES
    update,     \* the Update handed to From<Update> for MessageEvent
    event,      \* the Event built from it ({ api, message })
    op,         \* the last operation applied to the event
    result,     \* what that operation gave back to its caller
    pc,         \* "update": not yet classified; "event"; "aborted": the process panicked
    logged,     \* the lines log_handler has written with info!
    cells,      \* the Arc<RwLock<T>> allocations: a sequence of [val, readers, writer]
    handle,     \* the State<T> values: handle[h] is the cell h's Arc points to, 0 before h exists
    task,       \* what each task is doing with a State: [pc, h, dst]
    derived,    \* the pairs <<c, d>> of handles with d = c.from().await
    cloned,     \* the pairs <<c, d>> of handles with d = c.clone()
    bind,       \* how each Handler came by its state: [how, of]
    chain,      \* the dispatch of one event through each chat's handler chain
    arg         \* the State handed to the handler a chat is running: its cell, 0 if none

evars == <<update, event, op, result, pc, logged>>

svars == <<cells, handle, task, derived, cloned, bind>>

cvars == <<chain, arg>>

vars == <<update, event, op, result, pc, logged, cells, handle, task, derived, cloned, bind,
          chain, arg>>

----------------------------------------------------------------------------
(* Bounds and payload domains *)

\* chat ids are 1..MaxChat
MaxChat == 2

ChatIds == 1..MaxChat

Texts == {"hi"}

\* Option<T>: None or Some(x)
None == <<>>

Some(x) == <<x>>

Opt(S) == {None} \cup {Some(x) : x \in S}

IsSome(o) == o # None

\* Option::unwrap on a Some
Unwrap(o) == o[1]

\* api::Message, by the fields chat.rs reads of it
Message == [chat : ChatIds, text : Opt(Texts)]

\* api::CallbackQuery, by the fields chat.rs reads of it
CallbackQuery == [data : Opt(Texts), message : Opt(Message)]

\* api::Update, by the five fields From<Update> reads
Update ==
    [message : Opt(Message), edited_message : Opt(Message),
     channel_post : Opt(Message), edited_channel_post : Opt(Message),
     callback_query : Opt(CallbackQuery)]

----------------------------------------------------------------------------
(* enum MessageEvent *)

New(m) == [tag |-> "New", payload |-> m]

Edited(m) == [tag |-> "Edited", payload |-> m]

Post(m) == [tag |-> "Post", payload |-> m]

EditedPost(m) == [tag |-> "EditedPost", payload |-> m]

Callback(c) == [tag |-> "Callback", payload |-> c]

Unknown == [tag |-> "Unknown"]

MessageEvent ==
    {New(m) : m \in Message} \cup {Edited(m) : m \in Message}
    \cup {Post(m) : m \in Message} \cup {EditedPost(m) : m \in Message}
    \cup {Callback(c) : c \in CallbackQuery} \cup {Unknown}

(* What an operation gives back: a plain value, a Result, or a panic *)

Ret(v) == [kind |-> "Ret", val |-> v]

Ok(v) == [kind |-> "Ok", val |-> v]

Err(msg) == [kind |-> "Err", msg |-> msg]

Panic(msg) == [kind |-> "Panic", msg |-> msg]

NoResult == [kind |-> "None"]

\* Option::unwrap as an operation: the value, or a panic
UnwrapOrPanic(o) ==
    IF IsSome(o) THEN Ret(Unwrap(o))
    ELSE Panic("called Option::unwrap() on a None value")

----------------------------------------------------------------------------
(* impl From<Update> for MessageEvent *)

\* a From<Update> that reads callback_query first
FromUpdateCallbackFirst(u) ==
    IF IsSome(u.callback_query) THEN Callback(Unwrap(u.callback_query))
    ELSE IF IsSome(u.message) THEN New(Unwrap(u.message))
    ELSE IF IsSome(u.edited_message) THEN Edited(Unwrap(u.edited_message))
    ELSE IF IsSome(u.channel_post) THEN Post(Unwrap(u.channel_post))
    ELSE IF IsSome(u.edited_channel_post) THEN EditedPost(Unwrap(u.edited_channel_post))
    ELSE Unknown

\* a From<Update> that swaps the tags of the two post fields
FromUpdateSwappedTags(u) ==
    IF IsSome(u.message) THEN New(Unwrap(u.message))
    ELSE IF IsSome(u.edited_message) THEN Edited(Unwrap(u.edited_message))
    ELSE IF IsSome(u.channel_post) THEN EditedPost(Unwrap(u.channel_post))
    ELSE IF IsSome(u.edited_channel_post) THEN Post(Unwrap(u.edited_channel_post))
    ELSE IF IsSome(u.callback_query) THEN Callback(Unwrap(u.callback_query))
    ELSE Unknown

\* a From<Update> that never reads callback_query
FromUpdateNoCallback(u) ==
    IF IsSome(u.message) THEN New(Unwrap(u.message))
    ELSE IF IsSome(u.edited_message) THEN Edited(Unwrap(u.edited_message))
    ELSE IF IsSome(u.channel_post) THEN Post(Unwrap(u.channel_post))
    ELSE IF IsSome(u.edited_channel_post) THEN EditedPost(Unwrap(u.edited_channel_post))
    ELSE Unknown

FromUpdate(u) ==
    IF IsSome(u.message) THEN New(Unwrap(u.message))
    ELSE IF IsSome(u.edited_message) THEN Edited(Unwrap(u.edited_message))
    ELSE IF IsSome(u.channel_post) THEN Post(Unwrap(u.channel_post))
    ELSE IF IsSome(u.edited_channel_post) THEN EditedPost(Unwrap(u.edited_channel_post))
    ELSE IF IsSome(u.callback_query) THEN Callback(Unwrap(u.callback_query))
    ELSE Unknown

(* impl From<MessageEvent> for Message *)

MessageFromEvent(e) ==
    CASE e.tag = "New" -> Ret(e.payload)
      [] e.tag = "Edited" -> Ret(e.payload)
      [] e.tag = "Post" -> Ret(e.payload)
      [] e.tag = "EditedPost" -> Ret(e.payload)
      [] e.tag = "Callback" -> UnwrapOrPanic(e.payload.message)
      [] e.tag = "Unknown" -> Panic("Bad MessageEvent::Unknown")

(* impl From<MessageEvent> for CallbackQuery *)

CallbackQueryFromEvent(e) ==
    IF e.tag = "Callback" THEN Ret(e.payload)
    ELSE Panic("MessageEvent is not a CallbackQuery")

(* impl ToString for MessageEvent *)

to_string(e) ==
    CASE e.tag = "New" -> UnwrapOrPanic(e.payload.text)
      [] e.tag = "Edited" -> UnwrapOrPanic(e.payload.text)
      [] e.tag = "Post" -> UnwrapOrPanic(e.payload.text)
      [] e.tag = "EditedPost" -> UnwrapOrPanic(e.payload.text)
      [] e.tag = "Callback" -> UnwrapOrPanic(e.payload.data)
      [] e.tag = "Unknown" -> Panic("Bad MessageEvent::Unknown")

----------------------------------------------------------------------------
(* impl Event: the typed accessors; self is the Event { api, message } *)

\* a get_message that accepts posts as well
get_message_any(self) ==
    IF self.message.tag \in {"New", "Edited", "Post", "EditedPost"}
    THEN Ok(self.message.payload)
    ELSE Err("MessageEvent is not a Message")

get_message(self) ==
    CASE self.message.tag = "New" -> Ok(self.message.payload)
      [] self.message.tag = "Edited" -> Ok(self.message.payload)
      [] OTHER -> Err("MessageEvent is not a Message")

get_new_message(self) ==
    CASE self.message.tag = "New" -> Ok(self.message.payload)
      [] OTHER -> Err("MessageEvent is not a New Message")

get_edited_message(self) ==
    CASE self.message.tag = "Edited" -> Ok(self.message.payload)
      [] OTHER -> Err("MessageEvent is not an Edited Message")

\* a get_post that rejects edited posts
get_post_new_only(self) ==
    CASE self.message.tag = "Post" -> Ok(self.message.payload)
      [] OTHER -> Err("MessageEvent is not a Post")

get_post(self) ==
    CASE self.message.tag = "Post" -> Ok(self.message.payload)
      [] self.message.tag = "EditedPost" -> Ok(self.message.payload)
      [] OTHER -> Err("MessageEvent is not a Post")

get_new_post(self) ==
    CASE self.message.tag = "Post" -> Ok(self.message.payload)
      [] OTHER -> Err("MessageEvent is not a New Post")

get_edited_post(self) ==
    CASE self.message.tag = "EditedPost" -> Ok(self.message.payload)
      [] OTHER -> Err("MessageEvent is not an Edited Post")

get_callback_query(self) ==
    CASE self.message.tag = "Callback" -> Ok(self.message.payload)
      [] OTHER -> Err("MessageEvent is not a CallbackQuery")

----------------------------------------------------------------------------
(* The event specification: an Update is classified, then the conversions  *)
(* and accessors are applied to the Event; a panic aborts the process.     *)

NoEvent == [api |-> "none", message |-> Unknown]

\* the State variables while the event specification runs
StateIdle ==
    /\ cells = <<>>
    /\ handle = <<>>
    /\ task = <<>>
    /\ derived = {}
    /\ cloned = {}
    /\ bind = <<>>

\* the chain variables while no event is dispatched
ChainIdle ==
    /\ chain = <<>>
    /\ arg = <<>>

InitEvent ==
    /\ update \in Update
    /\ event = NoEvent
    /\ op = "none"
    /\ result = NoResult
    /\ pc = "update"
    /\ logged = <<>>
    /\ StateIdle
    /\ ChainIdle

\* Event { api, message: update.into() }
Classify ==
    /\ pc = "update"
    /\ event' = [api |-> "api", message |-> FromUpdate(update)]
    /\ op' = "from_update"
    /\ result' = NoResult
    /\ pc' = "event"
    /\ UNCHANGED <<update, logged, svars, cvars>>

\* an operation that borrows the event (&self) and returns r
Apply(name, r) ==
    /\ pc = "event"
    /\ op' = name
    /\ result' = r
    /\ pc' = IF r.kind = "Panic" THEN "aborted" ELSE "event"
    /\ UNCHANGED <<update, event, logged, svars, cvars>>

GetMessage == Apply("get_message", get_message(event))

GetNewMessage == Apply("get_new_message", get_new_message(event))

GetEditedMessage == Apply("get_edited_message", get_edited_message(event))

GetPost == Apply("get_post", get_post(event))

GetNewPost == Apply("get_new_post", get_new_post(event))

GetEditedPost == Apply("get_edited_post", get_edited_post(event))

GetCallbackQuery == Apply("get_callback_query", get_callback_query(event))

\* Message::from(event.message.clone())
IntoMessage == Apply("into_message", MessageFromEvent(event.message))

\* CallbackQuery::from(event.message.clone())
IntoCallbackQuery == Apply("into_callback_query", CallbackQueryFromEvent(event.message))

\* event.message.to_string()
EventToString == Apply("to_string", to_string(event.message))

NextEvent ==
    \/ Classify
    \/ GetMessage
    \/ GetNewMessage
    \/ GetEditedMessage
    \/ GetPost
    \/ GetNewPost
    \/ GetEditedPost
    \/ GetCallbackQuery
    \/ IntoMessage
    \/ IntoCallbackQuery
    \/ EventToString

SpecEvent == InitEvent /\ [][NextEvent]_vars

----------------------------------------------------------------------------
(* struct State<T> { state: Arc<RwLock<T>> }                               *)
(* Tasks take the lock of a State for reading or writing, clone a State    *)
(* and derive one with from(); every .await is a step of its own.          *)

\* the number of State<T> values, each pointing to one allocation
MaxHandles == 2

\* T is 0..MaxVal
MaxVal == 1

\* the number of concurrent tasks
NumTasks == 2

Handles == 1..MaxHandles

Values == 0..MaxVal

Tasks == 1..NumTasks

\* RwLock::new(v): nobody holds the lock
NewLock(v) == [val |-> v, readers |-> {}, writer |-> 0]

Idle == [pc |-> "idle", h |-> 0, dst |-> 0]

\* the value behind a State
Val(h) == cells[handle[h]].val

\* a read granted whoever holds the lock
CanReadAlways(c) == c \in 1..Len(cells)

\* RwLock::read is granted while no writer holds the lock
CanRead(c) == cells[c].writer = 0

\* a write granted while readers hold the lock
CanWriteOverReaders(c) == cells[c].writer = 0

\* RwLock::write is granted while nobody holds the lock
CanWrite(c) == cells[c].writer = 0 /\ cells[c].readers = {}

\* the handles a from() in flight will bind
Reserved == {task[t].dst : t \in Tasks}

\* the next State value to come into being
Fresh(h) ==
    /\ handle[h] = 0
    /\ h \notin Reserved
    /\ \A g \in Handles : (handle[g] = 0 /\ g \notin Reserved) => h <= g

\* the event variables while the State specification runs
EventIdle ==
    /\ update = [message |-> None, edited_message |-> None, channel_post |-> None,
                 edited_channel_post |-> None, callback_query |-> None]
    /\ event = NoEvent
    /\ op = "none"
    /\ result = NoResult
    /\ pc = "update"
    /\ logged = <<>>

\* one State holding some value; no task has started
InitState ==
    /\ \E v \in Values : cells = <<NewLock(v)>>
    /\ handle = [h \in Handles |-> IF h = 1 THEN 1 ELSE 0]
    /\ task = [t \in Tasks |-> Idle]
    /\ derived = {}
    /\ cloned = {}
    /\ bind = <<>>
    /\ EventIdle
    /\ ChainIdle

\* a clone that allocates a copy of the value
CloneDeep(src, dst) ==
    /\ handle[src] # 0
    /\ Fresh(dst)
    /\ cells' = Append(cells, NewLock(cells[handle[src]].val))
    /\ handle' = [handle EXCEPT ![dst] = Len(cells) + 1]
    /\ cloned' = cloned \cup {<<src, dst>>}
    /\ UNCHANGED <<task, derived, bind, evars, cvars>>

\* #[derive(Clone)]: dst = src.clone() clones the Arc
Clone(src, dst) ==
    /\ handle[src] # 0
    /\ Fresh(dst)
    /\ handle' = [handle EXCEPT ![dst] = handle[src]]
    /\ cloned' = cloned \cup {<<src, dst>>}
    /\ UNCHANGED <<cells, task, derived, bind, evars, cvars>>

\* State::from, up to the end of self.state.read().await
DeriveRead(t, src, dst) ==
    /\ task[t].pc = "idle"
    /\ handle[src] # 0
    /\ Fresh(dst)
    /\ CanRead(handle[src])
    /\ cells' = [cells EXCEPT ![handle[src]].readers = @ \cup {t}]
    /\ task' = [task EXCEPT ![t] = [pc |-> "derive", h |-> src, dst |-> dst]]
    /\ UNCHANGED <<handle, derived, cloned, bind, evars, cvars>>

\* a from() that clones the Arc instead of the value
DeriveCopyShared(t) ==
    /\ task[t].pc = "derive"
    /\ cells' = [cells EXCEPT ![handle[task[t].h]].readers = @ \ {t}]
    /\ handle' = [handle EXCEPT ![task[t].dst] = handle[task[t].h]]
    /\ derived' = derived \cup {<<task[t].h, task[t].dst>>}
    /\ task' = [task EXCEPT ![t] = Idle]
    /\ UNCHANGED <<cloned, bind, evars, cvars>>

\* State::from, the rest: Arc::new(RwLock::new((*guard).clone())), guard dropped
DeriveCopy(t) ==
    /\ task[t].pc = "derive"
    /\ LET c == handle[task[t].h] IN
        /\ cells' = Append([cells EXCEPT ![c].readers = @ \ {t}], NewLock(cells[c].val))
        /\ handle' = [handle EXCEPT ![task[t].dst] = Len(cells) + 1]
    /\ derived' = derived \cup {<<task[t].h, task[t].dst>>}
    /\ task' = [task EXCEPT ![t] = Idle]
    /\ UNCHANGED <<cloned, bind, evars, cvars>>

\* h.get().read().await
ReadLock(t, h) ==
    /\ task[t].pc = "idle"
    /\ handle[h] # 0
    /\ CanRead(handle[h])
    /\ cells' = [cells EXCEPT ![handle[h]].readers = @ \cup {t}]
    /\ task' = [task EXCEPT ![t] = [pc |-> "reading", h |-> h, dst |-> 0]]
    /\ UNCHANGED <<handle, derived, cloned, bind, evars, cvars>>

\* the read guard is dropped
ReadUnlock(t) ==
    /\ task[t].pc = "reading"
    /\ cells' = [cells EXCEPT ![handle[task[t].h]].readers = @ \ {t}]
    /\ task' = [task EXCEPT ![t] = Idle]
    /\ UNCHANGED <<handle, derived, cloned, bind, evars, cvars>>

\* h.get().write().await
WriteLock(t, h) ==
    /\ task[t].pc = "idle"
    /\ handle[h] # 0
    /\ CanWrite(handle[h])
    /\ cells' = [cells EXCEPT ![handle[h]].writer = t]
    /\ task' = [task EXCEPT ![t] = [pc |-> "writing", h |-> h, dst |-> 0]]
    /\ UNCHANGED <<handle, derived, cloned, bind, evars, cvars>>

\* *guard = v
Store(t, v) ==
    /\ task[t].pc = "writing"
    /\ cells' = [cells EXCEPT ![handle[task[t].h]].val = v]
    /\ task' = [task EXCEPT ![t].pc = "stored"]
    /\ UNCHANGED <<handle, derived, cloned, bind, evars, cvars>>

\* the write guard is dropped
WriteUnlock(t) ==
    /\ task[t].pc \in {"writing", "stored"}
    /\ cells' = [cells EXCEPT ![handle[task[t].h]].writer = 0]
    /\ task' = [task EXCEPT ![t] = Idle]
    /\ UNCHANGED <<handle, derived, cloned, bind, evars, cvars>>

\* a cancellation that forgets the guard instead of dropping it
CancelLeak(t) ==
    /\ task[t].pc \in {"reading", "writing", "stored"}
    /\ task' = [task EXCEPT ![t] = Idle]
    /\ UNCHANGED <<cells, handle, derived, cloned, bind, evars, cvars>>

\* the task is cancelled while it holds a guard: its future is dropped, and
\* the guard with it
Cancel(t) ==
    /\ task[t].pc \in {"reading", "writing", "stored"}
    /\ cells' = [cells EXCEPT ![handle[task[t].h]] =
                    [@ EXCEPT !.readers = @ \ {t},
                              !.writer = IF @ = t THEN 0 ELSE @]]
    /\ task' = [task EXCEPT ![t] = Idle]
    /\ UNCHANGED <<handle, derived, cloned, bind, evars, cvars>>

NextState ==
    \/ \E src, dst \in Handles : Clone(src, dst)
    \/ \E t \in Tasks : \E src, dst \in Handles : DeriveRead(t, src, dst)
    \/ \E t \in Tasks : DeriveCopy(t)
    \/ \E t \in Tasks : \E h \in Handles : ReadLock(t, h)
    \/ \E t \in Tasks : ReadUnlock(t)
    \/ \E t \in Tasks : \E h \in Handles : WriteLock(t, h)
    \/ \E t \in Tasks : \E v \in Values : Store(t, v)
    \/ \E t \in Tasks : WriteUnlock(t)
    \/ \E t \in Tasks : Cancel(t)

SpecState == InitState /\ [][NextState]_vars

\* a task gives up the guard it holds: it returns, fails or is cancelled
Release(t) == ReadUnlock(t) \/ WriteUnlock(t) \/ DeriveCopy(t) \/ Cancel(t)

\* no task holds a guard for ever: every handler returns or is cancelled
SpecStateFair == SpecState /\ \A t \in Tasks : WF_vars(Release(t))

----------------------------------------------------------------------------
(* enum Action and struct Handler<S>, and the dispatch of an event through *)
(* the ordered chain of handlers of each chat. A handler is any function   *)
(* (Event, State<S>) -> Result<Action, Error>: it may write the State it   *)
(* is handed and returns any Action or an error.                           *)

\* the number of chats, each dispatching one event through its chain
NumChats == 2

\* the number of handlers of a chain
ChainLen == 3

Chats == 1..NumChats

\* S::default()
Default == 0

ActionNext == [kind |-> "Next"]

ActionDone == [kind |-> "Done"]

ReplyText(s) == [kind |-> "ReplyText", text |-> s]

ReplyMarkdown(s) == [kind |-> "ReplyMarkdown", text |-> s]

ReplySticker(s) == [kind |-> "ReplySticker", text |-> s]

Action ==
    {ActionNext, ActionDone} \cup {ReplyText(s) : s \in Texts}
    \cup {ReplyMarkdown(s) : s \in Texts} \cup {ReplySticker(s) : s \in Texts}

ReplyKinds == {"ReplyText", "ReplyMarkdown", "ReplySticker"}

IsReply(a) == a.kind \in ReplyKinds

\* a chain that Done does not stop
ContinuesAlways(a) == TRUE

\* a chain that a reply stops
ContinuesOnlyNext(a) == a.kind = "Next"

\* Next: continue to the next handler; Done: stop handling events;
\* ReplyText, ReplyMarkdown, ReplySticker: reply and continue to the next handler
Continues(a) == a.kind # "Done"

\* Result<Action, anyhow::Error>, the output of Handler::f
Outcome == {Ok(a) : a \in Action} \cup {Err("handler error")}

\* a chat before its event is dispatched
NotStarted ==
    [pos |-> 0, phase |-> "idle", last |-> NoResult, ran |-> <<>>, api |-> None,
     wrote |-> None]

\* one State of the default value, as Handler::new makes it, to which
\* Handler::set_state has bound the handlers of every chat's chain
InitChain ==
    /\ cells = <<NewLock(Default)>>
    /\ handle = [c \in Chats |-> 1]
    /\ chain = [c \in Chats |-> NotStarted]
    /\ arg = [c \in Chats |-> 0]
    /\ task = <<>>
    /\ derived = {}
    /\ cloned = {}
    /\ bind = <<>>
    /\ EventIdle

\* a handler handed a copy of the value in a State of its own
PassStateCopy(c) ==
    /\ cells' = Append(cells, NewLock(cells[handle[c]].val))
    /\ arg' = [arg EXCEPT ![c] = Len(cells) + 1]

\* the State<S> argument of Handler::f is a clone of Handler::state
PassState(c) ==
    /\ cells' = cells
    /\ arg' = [arg EXCEPT ![c] = handle[c]]

\* what the dispatcher does after an action that does not fail
Proceed(c, a) ==
    IF Continues(a) /\ chain[c].pos < ChainLen THEN "idle" ELSE "done"

\* (handler.f)(event, state): the next handler of the chain is invoked
Invoke(c) ==
    /\ chain[c].phase = "idle"
    /\ chain[c].pos < ChainLen
    /\ PassState(c)
    /\ chain' = [chain EXCEPT ![c].pos = @ + 1,
                              ![c].phase = "running",
                              ![c].ran = Append(@, chain[c].pos + 1),
                              ![c].last = NoResult,
                              ![c].api = None]
    /\ UNCHANGED <<handle, task, derived, cloned, bind, evars>>

\* the running handler writes v through the State it was handed
HandlerWrite(c, v) ==
    /\ chain[c].phase = "running"
    /\ CanWrite(arg[c])
    /\ cells' = [cells EXCEPT ![arg[c]].val = v]
    /\ chain' = [d \in Chats |->
                    IF d = c THEN [chain[d] EXCEPT !.wrote = Some(v)]
                    ELSE IF handle[d] = arg[c] THEN [chain[d] EXCEPT !.wrote = None]
                    ELSE chain[d]]
    /\ UNCHANGED <<handle, arg, task, derived, cloned, bind, evars>>

\* a dispatcher that gives up every chat's dispatch when a handler fails
ReturnAbortAll(c, r) ==
    /\ chain[c].phase = "running"
    /\ chain' = [d \in Chats |->
                    IF d = c
                    THEN [chain[d] EXCEPT !.last = r,
                                          !.phase =
                                              IF r.kind = "Err" THEN "failed"
                                              ELSE IF IsReply(r.val) THEN "replying"
                                              ELSE Proceed(c, r.val)]
                    ELSE IF r.kind = "Err" THEN [chain[d] EXCEPT !.phase = "failed"]
                    ELSE chain[d]]
    /\ arg' = [d \in Chats |-> IF d = c \/ r.kind = "Err" THEN 0 ELSE arg[d]]
    /\ UNCHANGED <<cells, handle, task, derived, cloned, bind, evars>>

\* the running handler completes with r, and the dispatcher inspects it
Return(c, r) ==
    /\ chain[c].phase = "running"
    /\ chain' = [chain EXCEPT ![c].last = r,
                              ![c].phase =
                                  IF r.kind = "Err" THEN "failed"
                                  ELSE IF IsReply(r.val) THEN "replying"
                                  ELSE Proceed(c, r.val)]
    /\ arg' = [arg EXCEPT ![c] = 0]
    /\ UNCHANGED <<cells, handle, task, derived, cloned, bind, evars>>

\* the reply is forwarded to the API, then the chain goes on
Forward(c) ==
    /\ chain[c].phase = "replying"
    /\ chain' = [chain EXCEPT ![c].api = Some(chain[c].last.val),
                              ![c].phase = Proceed(c, chain[c].last.val)]
    /\ UNCHANGED <<cells, handle, arg, task, derived, cloned, bind, evars>>

NextChain ==
    \/ \E c \in Chats : Invoke(c)
    \/ \E c \in Chats : \E v \in Values : HandlerWrite(c, v)
    \/ \E c \in Chats : \E r \in Outcome : Return(c, r)
    \/ \E c \in Chats : Forward(c)

SpecChain == InitChain /\ [][NextChain]_vars

----------------------------------------------------------------------------
(* impl Handler<S>: new, with_state and set_state, the three ways a Handler *)
(* comes by its state. handle[h] is the cell behind the state of Handler h; *)
(* the function of a handler writes the State it is handed, a clone of the  *)
(* handler's.                                                              *)

\* the allocations made by with_state are capped
CellLimit == MaxHandles + 1

Unbound == [how |-> "none", of |-> 0, init |-> Default]

\* the handlers bound with set_state to the state of h lose track of h when h
\* is bound anew
Rebound(h, b) ==
    [g \in Handles |->
        IF g = h THEN b
        ELSE IF bind[g].of = h THEN [bind[g] EXCEPT !.of = 0]
        ELSE bind[g]]

InitHandler ==
    /\ cells = <<>>
    /\ handle = [h \in Handles |-> 0]
    /\ task = [t \in Tasks |-> Idle]
    /\ derived = {}
    /\ cloned = {}
    /\ bind = [h \in Handles |-> Unbound]
    /\ EventIdle
    /\ ChainIdle

\* a new() that takes the state of the first handler there is
HandlerNewShared(h) ==
    /\ Fresh(h)
    /\ Len(cells) < CellLimit
    /\ IF cells = <<>>
       THEN /\ cells' = Append(cells, NewLock(Default))
            /\ handle' = [handle EXCEPT ![h] = Len(cells) + 1]
       ELSE /\ cells' = cells
            /\ handle' = [handle EXCEPT ![h] = 1]
    /\ bind' = [bind EXCEPT ![h] = [how |-> "new", of |-> 0, init |-> Default]]
    /\ UNCHANGED <<task, derived, cloned, evars, cvars>>

\* Handler::new(func): state is Arc::new(RwLock::new(S::default()))
HandlerNew(h) ==
    /\ Fresh(h)
    /\ Len(cells) < CellLimit
    /\ cells' = Append(cells, NewLock(Default))
    /\ handle' = [handle EXCEPT ![h] = Len(cells) + 1]
    /\ bind' = [bind EXCEPT ![h] = [how |-> "new", of |-> 0, init |-> Default]]
    /\ UNCHANGED <<task, derived, cloned, evars, cvars>>

\* handler.with_state(v): state is Arc::new(RwLock::new(v))
WithState(h, v) ==
    /\ handle[h] # 0
    /\ Len(cells) < CellLimit
    /\ cells' = Append(cells, NewLock(v))
    /\ handle' = [handle EXCEPT ![h] = Len(cells) + 1]
    /\ bind' = Rebound(h, [how |-> "with_state", of |-> 0, init |-> v])
    /\ UNCHANGED <<task, derived, cloned, evars, cvars>>

\* a set_state that copies the value into an allocation of its own
SetStateCopy(h, g) ==
    /\ h # g
    /\ handle[h] # 0
    /\ handle[g] # 0
    /\ Len(cells) < CellLimit
    /\ cells' = Append(cells, NewLock(cells[handle[g]].val))
    /\ handle' = [handle EXCEPT ![h] = Len(cells) + 1]
    /\ bind' = Rebound(h, [how |-> "set_state", of |-> g, init |-> Default])
    /\ UNCHANGED <<task, derived, cloned, evars, cvars>>

\* handler.set_state(arc), arc being the Arc of handler g's state
SetState(h, g) ==
    /\ h # g
    /\ handle[h] # 0
    /\ handle[g] # 0
    /\ handle' = [handle EXCEPT ![h] = handle[g]]
    /\ bind' = Rebound(h, [how |-> "set_state", of |-> g, init |-> Default])
    /\ UNCHANGED <<cells, task, derived, cloned, evars, cvars>>

\* the function of handler h writes v to the State it is handed:
\* *state.get().write().await = v
WriteThrough(h, v) ==
    /\ handle[h] # 0
    /\ CanWrite(handle[h])
    /\ cells' = [cells EXCEPT ![handle[h]].val = v]
    /\ UNCHANGED <<handle, task, derived, cloned, bind, evars, cvars>>

NextHandler ==
    \/ \E h \in Handles : HandlerNew(h)
    \/ \E h \in Handles : \E v \in Values : WithState(h, v)
    \/ \E h, g \in Handles : SetState(h, g)
    \/ \E h \in Handles : \E v \in Values : WriteThrough(h, v)

SpecHandler == InitHandler /\ [][NextHandler]_vars

----------------------------------------------------------------------------
(* pub async fn log_handler<S>(e: Event, _: S): the handler that logs the   *)
(* event and passes it on. The events it is given carry the sender, which   *)
(* it reads next to the chat id and the text.                               *)

Names == {"Ana"}

User == [first_name : Names]

\* User::default()
DefaultUser == [first_name |-> ""]

\* api::Message, with its sender
LoggedMessage == [chat : ChatIds, from : Opt(User), text : Opt(Texts)]

\* Message::default(): the chat id is 0
DefaultMessage == [chat |-> 0, from |-> None, text |-> None]

\* api::CallbackQuery, with its sender
LoggedCallback == [from : User, data : Opt(Texts), message : Opt(LoggedMessage)]

LoggedEvent ==
    {New(m) : m \in LoggedMessage} \cup {Edited(m) : m \in LoggedMessage}
    \cup {Post(m) : m \in LoggedMessage} \cup {EditedPost(m) : m \in LoggedMessage}
    \cup {Callback(q) : q \in LoggedCallback} \cup {Unknown}

\* Option::unwrap_or_default, d being the default of the type
unwrap_or_default(o, d) == IF IsSome(o) THEN Unwrap(o) ELSE d

\* a log_handler that unwraps the sender and the text
log_handler_unwrap(e, cs) ==
    CASE e.tag \in {"New", "Edited", "Post", "EditedPost"} ->
            IF IsSome(e.payload.from) /\ IsSome(e.payload.text)
            THEN [ret |-> Ok(ActionNext),
                  line |-> Some([chat_id |-> e.payload.chat,
                                 from |-> Unwrap(e.payload.from).first_name,
                                 text |-> Unwrap(e.payload.text)]),
                  cells |-> cs]
            ELSE [ret |-> Panic("called Option::unwrap() on a None value"),
                  line |-> None, cells |-> cs]
      [] e.tag = "Callback" ->
            IF IsSome(e.payload.message) /\ IsSome(e.payload.data)
            THEN [ret |-> Ok(ActionNext),
                  line |-> Some([chat_id |-> Unwrap(e.payload.message).chat,
                                 from |-> e.payload.from.first_name,
                                 text |-> Unwrap(e.payload.data)]),
                  cells |-> cs]
            ELSE [ret |-> Panic("called Option::unwrap() on a None value"),
                  line |-> None, cells |-> cs]
      [] OTHER -> [ret |-> Err("Unknown message type"), line |-> None, cells |-> cs]

\* a log_handler that resets the state it is handed
log_handler_reset(e, cs) ==
    CASE e.tag \in {"New", "Edited", "Post", "EditedPost"} ->
            [ret |-> Ok(ActionNext),
             line |-> Some([chat_id |-> e.payload.chat,
                            from |-> unwrap_or_default(e.payload.from, DefaultUser).first_name,
                            text |-> unwrap_or_default(e.payload.text, "")]),
             cells |-> [cs EXCEPT ![1].val = Default]]
      [] e.tag = "Callback" ->
            [ret |-> Ok(ActionNext),
             line |-> Some([chat_id |-> unwrap_or_default(e.payload.message, DefaultMessage).chat,
                            from |-> e.payload.from.first_name,
                            text |-> unwrap_or_default(e.payload.data, "")]),
             cells |-> [cs EXCEPT ![1].val = Default]]
      [] OTHER -> [ret |-> Err("Unknown message type"), line |-> None,
                   cells |-> [cs EXCEPT ![1].val = Default]]

\* log_handler(e, _): what it returns, the line it logs, and the locks cs of
\* the state it is handed, which it never touches
log_handler(e, cs) ==
    CASE e.tag \in {"New", "Edited", "Post", "EditedPost"} ->
            [ret |-> Ok(ActionNext),
             line |-> Some([chat_id |-> e.payload.chat,
                            from |-> unwrap_or_default(e.payload.from, DefaultUser).first_name,
                            text |-> unwrap_or_default(e.payload.text, "")]),
             cells |-> cs]
      [] e.tag = "Callback" ->
            [ret |-> Ok(ActionNext),
             line |-> Some([chat_id |-> unwrap_or_default(e.payload.message, DefaultMessage).chat,
                            from |-> e.payload.from.first_name,
                            text |-> unwrap_or_default(e.payload.data, "")]),
             cells |-> cs]
      [] OTHER -> [ret |-> Err("Unknown message type"), line |-> None, cells |-> cs]

\* an event of any kind, and the state of the handler holding any value
InitLog ==
    /\ update = [message |-> None, edited_message |-> None, channel_post |-> None,
                 edited_channel_post |-> None, callback_query |-> None]
    /\ \E e \in LoggedEvent : event = [api |-> "api", message |-> e]
    /\ op = "none"
    /\ result = NoResult
    /\ pc = "event"
    /\ logged = <<>>
    /\ \E v \in Values : cells = <<NewLock(v)>>
    /\ handle = [h \in Handles |-> IF h = 1 THEN 1 ELSE 0]
    /\ task = <<>>
    /\ derived = {}
    /\ cloned = {}
    /\ bind = <<>>
    /\ ChainIdle

\* the handler is run on the event, with the state bound to it
LogHandler ==
    /\ pc = "event"
    /\ op = "none"
    /\ LET r == log_handler(event.message, cells) IN
        /\ op' = "log_handler"
        /\ result' = r.ret
        /\ logged' = logged \o r.line
        /\ cells' = r.cells
        /\ pc' = IF r.ret.kind = "Panic" THEN "aborted" ELSE "event"
    /\ UNCHANGED <<update, event, handle, task, derived, cloned, bind, cvars>>

NextLog == LogHandler

SpecLog == InitLog /\ [][NextLog]_vars

----------------------------------------------------------------------------
(* Properties of the event model *)

\* the five fields of Update in the order From<Update> reads them, with their tags
Fields == <<"message", "edited_message", "channel_post", "edited_channel_post", "callback_query">>

Tags == <<"New", "Edited", "Post", "EditedPost", "Callback">>

Populated(u) == {i \in 1..5 : IsSome(u[Fields[i]])}

Classified == pc # "update"

\* C1: for every Update, with any subset of the five fields populated, the
\* event is tagged by the first populated field in the order message,
\* edited_message, channel_post, edited_channel_post, callback_query, and
\* wraps that field's payload.
C1_FirstPopulatedWins ==
    Classified =>
        \A i \in Populated(update) :
            (\A j \in Populated(update) : i <= j) =>
                event.message = [tag |-> Tags[i], payload |-> Unwrap(update[Fields[i]])]

\* an Update with both message and callback_query populated was classified New
C1_Witness ==
    /\ Classified
    /\ IsSome(update.message)
    /\ IsSome(update.callback_query)
    /\ event.message = New(Unwrap(update.message))

\* C2: an Update with exactly one of the five fields populated is classified
\* with the tag of that field (message New, edited_message Edited,
\* channel_post Post, edited_channel_post EditedPost, callback_query Callback)
\* and the event wraps that field's payload.
C2_SingleFieldTag ==
    (Classified /\ Cardinality(Populated(update)) = 1) =>
        \A i \in Populated(update) :
            /\ event.message.tag = Tags[i]
            /\ event.message.payload = Unwrap(update[Fields[i]])

\* an Update with only edited_channel_post populated was classified EditedPost
C2_Witness ==
    /\ Classified
    /\ Populated(update) = {4}
    /\ event.message.tag = "EditedPost"

\* C3: the event is Unknown exactly when none of the five fields is
\* populated, and every Update yields one value of the enum MessageEvent
\* (Unknown included), never a panic.
C3_UnknownIffEmpty ==
    Classified =>
        /\ event.message \in MessageEvent
        /\ (event.message = Unknown) <=> (Populated(update) = {})
        /\ op = "from_update" => pc = "event"

\* an Update with no field populated was classified Unknown
C3_Witness ==
    /\ Classified
    /\ Populated(update) = {}
    /\ event.message = Unknown
    /\ pc = "event"

\* the tags each typed accessor accepts
Accepted ==
    [get_message |-> {"New", "Edited"},
     get_new_message |-> {"New"},
     get_edited_message |-> {"Edited"},
     get_post |-> {"Post", "EditedPost"},
     get_new_post |-> {"Post"},
     get_edited_post |-> {"EditedPost"},
     get_callback_query |-> {"Callback"}]

\* C8: each typed accessor returns Ok of the inner payload when the event's
\* tag is in its accepted set and otherwise an Err to its caller; it never
\* aborts the process and leaves the event as it was.
C8_AccessorsTyped ==
    [][op' \in DOMAIN Accepted =>
        /\ event' = event
        /\ pc' = "event"
        /\ IF event.message.tag \in Accepted[op']
           THEN result' = Ok(event.message.payload)
           ELSE result'.kind = "Err"]_vars

\* get_message on a Callback event returned an Err and the process goes on
C8_Witness ==
    /\ op = "get_message"
    /\ event.message.tag = "Callback"
    /\ result.kind = "Err"
    /\ pc = "event"

MessageLike == {"New", "Edited", "Post", "EditedPost"}

\* C9: the conversion of a MessageEvent into a Message never aborts the
\* process: it returns the inner message for New, Edited, Post and
\* EditedPost, the embedded message for a Callback that carries one, and a
\* recoverable error for a Callback without message and for Unknown.
C9_CoerceNeverAborts ==
    op = "into_message" =>
        /\ pc # "aborted"
        /\ CASE event.message.tag \in MessageLike ->
                    result.val = event.message.payload
             [] event.message.tag = "Callback" ->
                    IF IsSome(event.message.payload.message)
                    THEN result.val = Unwrap(event.message.payload.message)
                    ELSE result.kind = "Err"
             [] event.message.tag = "Unknown" -> result.kind = "Err"

\* C10: text extraction returns the message's text for New, Edited, Post and
\* EditedPost and the callback's data for Callback when the field is
\* present, and a recoverable error when it is absent or the event is
\* Unknown; it never aborts the process.
C10_TextNeverAborts ==
    op = "to_string" =>
        /\ pc # "aborted"
        /\ CASE event.message.tag \in MessageLike ->
                    IF IsSome(event.message.payload.text)
                    THEN result.val = Unwrap(event.message.payload.text)
                    ELSE result.kind = "Err"
             [] event.message.tag = "Callback" ->
                    IF IsSome(event.message.payload.data)
                    THEN result.val = Unwrap(event.message.payload.data)
                    ELSE result.kind = "Err"
             [] event.message.tag = "Unknown" -> result.kind = "Err"

\* whether an accessor's result is Ok
Succeeds(r) == r.kind = "Ok"

\* C20: on every event the typed accessors agree on the tag: get_message
\* succeeds exactly when get_new_message or get_edited_message does, get_post
\* exactly when get_new_post or get_edited_post does, at most one of
\* get_message, get_post and get_callback_query succeeds, and on Unknown all
\* seven fail.
C20_AccessorsPartition ==
    Classified =>
        /\ Succeeds(get_message(event)) <=>
              (Succeeds(get_new_message(event)) \/ Succeeds(get_edited_message(event)))
        /\ Succeeds(get_post(event)) <=>
              (Succeeds(get_new_post(event)) \/ Succeeds(get_edited_post(event)))
        /\ Cardinality({r \in {get_message(event), get_post(event), get_callback_query(event)} :
                            Succeeds(r)}) <= 1
        /\ ~(Succeeds(get_message(event)) /\ Succeeds(get_post(event)))
        /\ ~(Succeeds(get_message(event)) /\ Succeeds(get_callback_query(event)))
        /\ ~(Succeeds(get_post(event)) /\ Succeeds(get_callback_query(event)))
        /\ event.message = Unknown =>
              \A r \in {get_message(event), get_new_message(event),
                        get_edited_message(event), get_post(event), get_new_post(event),
                        get_edited_post(event), get_callback_query(event)} : ~Succeeds(r)

\* get_edited_post succeeded on an EditedPost event, on which get_post succeeds
\* and get_message fails
C20_Witness ==
    /\ op = "get_edited_post"
    /\ result.kind = "Ok"
    /\ event.message.tag = "EditedPost"
    /\ Succeeds(get_post(event))
    /\ ~Succeeds(get_message(event))

----------------------------------------------------------------------------
(* Properties of State *)

\* task t stores a value into cell k in this step
StoreTo(t, k) ==
    /\ task[t].pc = "writing"
    /\ task'[t].pc = "stored"
    /\ handle[task[t].h] = k

\* C4: once d = c.from().await has returned, d holds a copy of c's value in
\* an allocation of its own: c and d never point to the same cell, a write
\* to d's cell leaves the value read through c as it was, and a write to
\* c's cell leaves the value read through d as it was.
C4_DeriveIsolation ==
    [][/\ \A p \in derived' : handle'[p[1]] # handle'[p[2]]
       /\ \A p \in derived' \ derived : Val(p[2])' = Val(p[1])
       /\ \A p \in derived : \A t \in Tasks :
            /\ StoreTo(t, handle[p[2]]) => Val(p[1])' = Val(p[1])
            /\ StoreTo(t, handle[p[1]]) => Val(p[2])' = Val(p[2])]_vars

\* a task has stored through a derived State a value its source does not hold
C4_Witness ==
    \E p \in derived : \E t \in Tasks :
        /\ task[t].pc = "stored"
        /\ handle[task[t].h] = handle[p[2]]
        /\ Val(p[2]) # Val(p[1])

----------------------------------------------------------------------------
(* Properties of the handler chain *)

\* the dispatch of chat c's event, without the record of its handlers' writes
Dispatch(c) == [chain[c] EXCEPT !.wrote = None]

\* a handler of chat c is invoked in this step
Invoked(c) == chain[c].phase # "running" /\ chain'[c].phase = "running"

\* the running handler of chat c completes in this step
Completed(c) == chain[c].phase = "running" /\ chain'[c].phase # "running"

\* C5: once a handler of a chain has returned Done, the dispatch of that
\* event is over: no later handler of the chain is invoked and Done stays
\* the last action returned to the caller.
C5_DoneStopsChain ==
    [][\A c \in Chats :
        /\ chain'[c].last = Ok(ActionDone) =>
              /\ chain'[c].phase = "done"
              /\ chain'[c].ran = [i \in 1..chain'[c].pos |-> i]
        /\ chain[c].last = Ok(ActionDone) => Dispatch(c)' = Dispatch(c)]_vars

\* handlers 1 and 2 ran, the second returned Done, and a third handler exists
C5_Witness ==
    \E c \in Chats :
        /\ chain[c].last = Ok(ActionDone)
        /\ chain[c].ran = <<1, 2>>
        /\ chain[c].phase = "done"
        /\ ChainLen > 2

\* C6: a handler that returns ReplyText, ReplyMarkdown or ReplySticker does
\* not stop the chain: its payload is forwarded to the API before any
\* further handler is invoked, and the chain then goes on as after Next (to
\* the next handler if there is one).
C6_ReplyContinues ==
    [][\A c \in Chats :
        /\ (Completed(c) /\ chain'[c].last.kind = "Ok" /\ IsReply(chain'[c].last.val))
              => chain'[c].phase = "replying"
        /\ (chain[c].phase = "replying" /\ Dispatch(c)' # Dispatch(c)) =>
              /\ chain'[c].api = Some(chain[c].last.val)
              /\ chain'[c].last = chain[c].last
              /\ chain'[c].phase = IF chain[c].pos < ChainLen THEN "idle" ELSE "done"
        /\ (Invoked(c) /\ chain[c].last.kind = "Ok" /\ IsReply(chain[c].last.val))
              => chain[c].api = Some(chain[c].last.val)]_vars

\* the first handler's reply was forwarded and the chain is about to invoke
\* the second handler
C6_Witness ==
    \E c \in Chats :
        /\ chain[c].phase = "idle"
        /\ chain[c].pos = 1
        /\ chain[c].last = Ok(ReplyText("hi"))
        /\ chain[c].api = Some(ReplyText("hi"))
        /\ ENABLED Invoke(c)

----------------------------------------------------------------------------
(* Properties of log_handler *)

\* C11: log_handler returns Action::Next for every New, Edited, Post,
\* EditedPost and Callback event, whether or not the sender, the text, the
\* data or the embedded message is there (it logs the default in its place
\* and does not panic), and returns an error exactly for an Unknown event.
C11_LogHandlerNext ==
    op = "log_handler" =>
        /\ pc # "aborted"
        /\ event.message.tag # "Unknown" =>
              /\ result = Ok(ActionNext)
              /\ Len(logged) = 1
        /\ event.message.tag = "Unknown" <=> result.kind = "Err"
        /\ event.message.tag = "Unknown" => logged = <<>>

\* log_handler returned Next on a callback without data and without message,
\* logging the defaults
C11_Witness ==
    /\ op = "log_handler"
    /\ event.message.tag = "Callback"
    /\ event.message.payload.message = None
    /\ event.message.payload.data = None
    /\ result = Ok(ActionNext)
    /\ logged = <<[chat_id |-> 0, from |-> "Ana", text |-> ""]>>

\* C12: log_handler only observes: whatever the event and whatever it
\* returns, the state bound to it holds after the call the value it held
\* before, and its lock is taken neither for writing nor for reading.
C12_LogHandlerObserves ==
    [][(op = "none" /\ op' = "log_handler") =>
          /\ Val(1)' = Val(1)
          /\ cells'[handle[1]].writer = 0
          /\ cells' = cells
          /\ handle' = handle]_vars

\* log_handler has failed on an Unknown event with a state that does not hold
\* the default value
C12_Witness ==
    /\ op = "log_handler"
    /\ result.kind = "Err"
    /\ event.message.tag = "Unknown"
    /\ Val(1) # Default

----------------------------------------------------------------------------
(* Properties of the lock of a State *)

\* the tasks that hold a read guard of cell k
ReadersOf(k) ==
    {t \in Tasks : task[t].pc \in {"reading", "derive"} /\ handle[task[t].h] = k}

\* the tasks that hold a write guard of cell k
WritersOf(k) ==
    {t \in Tasks : task[t].pc \in {"writing", "stored"} /\ handle[task[t].h] = k}

\* C13: while a task holds the write guard of a State no other task holds
\* its write guard or a read guard; read guards are held by any number of
\* tasks at once; and write() is granted only in a state where no task holds
\* a guard of that State.
C13_ReaderWriterExclusion ==
    [][/\ \A k \in 1..Len(cells') :
            /\ Cardinality(WritersOf(k)') <= 1
            /\ WritersOf(k)' # {} => ReadersOf(k)' = {}
       /\ \A t \in Tasks : \A h \in Handles :
            (task[t].pc = "idle" /\ task'[t].pc = "writing" /\ task'[t].h = h) =>
                /\ WritersOf(handle[h]) = {}
                /\ ReadersOf(handle[h]) = {}
       /\ \A t \in Tasks : \A h \in Handles :
            (task[t].pc = "idle" /\ task'[t].pc \in {"reading", "derive"} /\ task'[t].h = h) =>
                WritersOf(handle[h]) = {}]_vars

\* a task holds the write guard of a State, alone, and has stored through it
C13_Witness ==
    \E t \in Tasks : \E k \in 1..Len(cells) :
        /\ task[t].pc = "stored"
        /\ WritersOf(k) = {t}
        /\ ReadersOf(k) = {}
        /\ cells[k].writer = t
        /\ cells[k].readers = {}

\* task t is recorded as a holder of some lock
Holds(t) ==
    \E k \in 1..Len(cells) : t \in cells[k].readers \/ cells[k].writer = t

C18_DeriveUnderReadLock ==
    [][\A t \in Tasks : \A h, d \in Handles :
        /\ (task'[t].pc = "derive" /\ task'[t].h = h) =>
              /\ cells'[handle'[h]].writer = 0
              /\ t \in cells'[handle'[h]].readers
        /\ (task[t].pc = "derive" /\ task'[t].pc = "idle"
                /\ task[t].h = h /\ task[t].dst = d) =>
              /\ cells[handle[h]].writer = 0
              /\ t \in cells[handle[h]].readers
              /\ t \notin cells'[handle[h]].readers
              /\ handle[d] = 0
              /\ handle'[d] # 0
              /\ cells'[handle'[d]].val = cells[handle[h]].val]_vars

\* from() has returned and given up its read guard: a task was since granted
\* the write guard of the source and stored a value the derived State does
\* not hold
C18_Witness ==
    /\ derived = {<<1, 2>>}
    /\ cells[handle[1]].readers = {}
    /\ \E t \in Tasks : task[t] = [pc |-> "stored", h |-> 1, dst |-> 0]
    /\ Val(1) # Val(2)

\* the pairs of State values joined by a chain of clone() calls, in either
\* direction
Join(R) ==
    R \cup {q \in Handles \X Handles :
                \E b \in Handles : <<q[1], b>> \in R /\ <<b, q[2]>> \in R}

CloneClass == Join(Join(cloned \cup {<<p[2], p[1]>> : p \in cloned}))

\* C19: a clone of a State is the same lock and the same value as the State
\* it was cloned from: a value stored through either is the value read
\* through the other, a write guard taken through either shuts the other
\* out, and two State values share an allocation only if clone() calls join
\* them, never by from().
C19_CloneAliases ==
    [][/\ \A p \in cloned' : handle'[p[1]] = handle'[p[2]]
       /\ \A p \in cloned : \A t \in Tasks :
            /\ StoreTo(t, handle[p[2]]) =>
                  Val(p[1])' = cells'[handle[task[t].h]].val
            /\ StoreTo(t, handle[p[1]]) =>
                  Val(p[2])' = cells'[handle[task[t].h]].val
            /\ (task'[t].pc = "writing" /\ task'[t].h = p[2]) =>
                  cells'[handle'[p[1]]].writer = t
       /\ \A h, g \in Handles :
            (h # g /\ handle'[h] # 0 /\ handle'[h] = handle'[g]) =>
                <<h, g>> \in CloneClass']_vars

\* a task has stored through a clone a value other than the one the State
\* was created with, and the State it was cloned from holds that value
C19_Witness ==
    /\ cloned = {<<1, 2>>}
    /\ \E t \in Tasks : task[t] = [pc |-> "stored", h |-> 2, dst |-> 0]
    /\ Val(1) = MaxVal
    /\ Val(2) = MaxVal
    /\ cells[handle[1]].writer # 0

----------------------------------------------------------------------------
(* Properties of the binding of a Handler to its state *)

\* handler h was bound with set_state to the state of handler g, and neither
\* was bound anew since
SharesWith(h, g) == bind[h].how = "set_state" /\ bind[h].of = g

\* handler h owns the state it was constructed with
Owns(h) == bind[h].how \in {"new", "with_state"}

\* C14: set_state shares, it does not copy: it binds the handler to the very
\* allocation it is given and allocates nothing, and from then on a value
\* written through either of the two handlers is the value read through the
\* other.
C14_SetStateShares ==
    [][\A h, g \in Handles :
        /\ (SharesWith(h, g)' /\ ~SharesWith(h, g)) =>
              /\ handle'[h] = handle[g]
              /\ cells' = cells
        /\ (SharesWith(h, g)' /\ handle' = handle) =>
              \A v \in Values :
                  /\ (Val(h)' = v /\ Val(h) # v) => Val(g)' = v
                  /\ (Val(g)' = v /\ Val(g) # v) => Val(h)' = v]_vars

\* handler 2 was bound to the state of handler 1, which was constructed with
\* the default value, and both read the value written since
C14_Witness ==
    /\ bind[1].how = "new"
    /\ SharesWith(2, 1)
    /\ Val(1) = MaxVal
    /\ Val(2) = MaxVal
    /\ MaxVal # Default

\* C15: new() binds the handler to an allocation of its own that holds the
\* default value, with_state(v) to one of its own that holds v; no handler
\* shares it unless set_state bound it there, so that what is written
\* through the state another handler owns, be it constructed the same way
\* and with the same value, is never read through it.
C15_OwnState ==
    [][\A h \in Handles :
        /\ (Owns(h)' /\ handle'[h] # handle[h]) =>
              /\ handle'[h] \notin {handle[g] : g \in Handles}
              /\ handle'[h] \notin 1..Len(cells)
              /\ cells'[handle'[h]] = NewLock(bind'[h].init)
              /\ bind'[h].how = "new" => bind'[h].init = Default
        /\ Owns(h)' =>
              \A g \in Handles \ {h} :
                  /\ handle'[g] = handle'[h] => bind'[g].how = "set_state"
                  /\ (Owns(g) /\ Owns(h) /\ handle' = handle /\ Val(g)' # Val(g)) =>
                        Val(h)' = Val(h)]_vars

\* two handlers constructed with new(), both with the default value: one has
\* written its state, the other still reads the default
C15_Witness ==
    /\ bind[1] = [how |-> "new", of |-> 0, init |-> Default]
    /\ bind[2] = [how |-> "new", of |-> 0, init |-> Default]
    /\ Val(1) # Default
    /\ Val(2) = Default

----------------------------------------------------------------------------
(* Properties of a failing handler *)

\* C16: the error of a handler stays in its chat: it is the result handed
\* back for that chat's dispatch, whose chain stops there; a step of one
\* chat's dispatch, failing or not, changes no other chat's dispatch; and
\* beside a failed chat every other chat's chain runs on, its handlers in
\* order, each free to return any action.
C16_ErrorStaysInChat ==
    [][\A c \in Chats :
        /\ chain'[c].phase = "failed" <=>
              (chain'[c].last.kind = "Err" /\ chain'[c].pos > 0)
        /\ chain[c].phase = "failed" => Dispatch(c)' = Dispatch(c)
        /\ chain'[c].ran = [i \in 1..chain'[c].pos |-> i]
        /\ \A d \in Chats \ {c} :
            /\ Dispatch(c)' # Dispatch(c) =>
                  /\ Dispatch(d)' = Dispatch(d)
                  /\ arg'[d] = arg[d]
            /\ chain[c].phase = "failed" =>
                  /\ (chain[d].phase = "idle" /\ chain[d].pos < ChainLen) =>
                        ENABLED Invoke(d)
                  /\ chain[d].phase = "running" =>
                        \A r \in Outcome : ENABLED Return(d, r)
                  /\ chain[d].phase = "replying" => ENABLED Forward(d)]_vars

\* the first handler of chat 1 has failed; the chain of chat 2 has run all
\* its handlers in order and ended on an action
C16_Witness ==
    /\ chain[1].phase = "failed"
    /\ chain[1].pos = 1
    /\ chain[1].last.kind = "Err"
    /\ chain[2].phase = "done"
    /\ chain[2].ran = [i \in 1..ChainLen |-> i]
    /\ chain[2].last.kind = "Ok"

====
